---- MODULE Spec2Model ----
(***************************************************************************)
(* dog_patrol: renaming of outdoor Walk activities on Strava.              *)
(*   src/main.py                 the Cloud Function (webhook event path)   *)
(*   src/backfill_activities.py  the backfill script (batch path)          *)
(* One processing unit (a webhook request or a backfill run) runs at a     *)
(* time.  The provider (Strava) and the config store (Firestore) are the   *)
(* environment: their answers are chosen nondeterministically.             *)
(***************************************************************************)
EXTENDS Integers, Sequences, FiniteSets, TLC

\* ----------------------------------------------------------------- bounds
MaxActs == 2          \* activities the provider holds
MaxRotations == 1     \* times the provider rotates the refresh token
MaxLimited == 1       \* requests of one unit the provider rate-limits (answers 429)
ProviderPageMax == 1  \* activities the provider puts on one page of a listing

\* ------------------------------------------------------ program constants
MAX_RETRIES == 3
RATE_LIMIT_BUFFER == 5
PER_PAGE == 100

\* ------------------------------------------------------------------ names
\* The labels are written with their code points: the two files do not hold
\* the same bytes after the words.
MainMorning == "Morning Shakeout U+011F U+0178 U+2022 U+00E2 U+20AC U+011F U+0178 U+00A6 U+00BA"
MainLunch == "Lunch Break Sniffari U+011F U+0178 U+2018 U+0192 U+011F U+0178 U+2022 U+00E2 U+20AC U+011F U+0178 U+00A6 U+00BA"
MainEvening == "Evening Patrol U+011F U+0178 U+2022 U+00E2 U+20AC U+011F U+0178 U+00A6 U+00BA"
BatchMorning == "Morning Shakeout U+1F415 U+200D U+1F9BA"
BatchLunch == "Lunch Break Sniffari U+1F443 U+1F415 U+200D U+1F9BA"
BatchEvening == "Evening Patrol U+1F415 U+200D U+1F9BA"

\* keyword in name
Contains(name, keyword) ==
    \E i \in 1..(Len(name) - Len(keyword) + 1) :
        SubSeq(name, i, i + Len(keyword) - 1) = keyword

dog_keywords == {"Dog Patrol", "Sniffari", "U+1F415", "U+1F443"}

is_already_dog_named(name) == \E keyword \in dog_keywords : Contains(name, keyword)

\* A timestamp is a sequence of characters (the date is one token):
\* <<"2024-12-26","T",h,h,":",m,m,":",s,s>> with an optional trailing "Z".
\* <<>> is an absent (None or empty) timestamp.
Digits == <<"0", "1", "2", "3", "4", "5", "6", "7", "8", "9">>

DigitVal(c) == IF \E d \in 1..10 : Digits[d] = c
               THEN (CHOOSE d \in 1..10 : Digits[d] = c) - 1
               ELSE -1

Stamp(h, m, z) ==
    <<"2024-12-26", "T", Digits[(h \div 10) + 1], Digits[(h % 10) + 1], ":",
      Digits[(m \div 10) + 1], Digits[(m % 10) + 1], ":", "0", "0">>
    \o (IF z THEN <<"Z">> ELSE <<>>)

\* str.replace("Z", ""): every "Z" is removed.
StripZ(s) == SelectSeq(s, LAMBDA c : c # "Z")

\* datetime.fromisoformat(...).hour; -1 stands for the ValueError it raises.
IsoHour(s) ==
    IF /\ Len(s) = 10
       /\ s[2] = "T" /\ s[5] = ":" /\ s[8] = ":"
       /\ \A k \in {3, 4, 6, 7, 9, 10} : DigitVal(s[k]) >= 0
       /\ DigitVal(s[3]) * 10 + DigitVal(s[4]) <= 23
       /\ DigitVal(s[6]) * 10 + DigitVal(s[7]) <= 59
       /\ DigitVal(s[9]) * 10 + DigitVal(s[10]) <= 59
    THEN DigitVal(s[3]) * 10 + DigitVal(s[4])
    ELSE -1

\* The naming with the morning starting after 04:59.
MainBadHourName(start_date_local) ==
    LET hour == IsoHour(StripZ(start_date_local)) IN
    IF hour < 0 THEN "ValueError"
    ELSE IF 4 < hour /\ hour < 11 THEN MainMorning
    ELSE IF 11 <= hour /\ hour < 14 THEN MainLunch
    ELSE MainEvening

\* main.py determine_activity_name; "ValueError" when the parse raises.
determine_activity_name(start_date_local) ==
    LET hour == IsoHour(StripZ(start_date_local)) IN
    IF hour < 0 THEN "ValueError"
    ELSE IF 4 <= hour /\ hour < 11 THEN MainMorning
    ELSE IF 11 <= hour /\ hour < 14 THEN MainLunch
    ELSE MainEvening

\* backfill_activities.py StravaBackfiller.determine_activity_name
bf_determine_activity_name(start_date_local) ==
    LET hour == IsoHour(StripZ(start_date_local)) IN
    IF hour < 0 THEN "ValueError"
    ELSE IF 4 <= hour /\ hour < 11 THEN BatchMorning
    ELSE IF 11 <= hour /\ hour < 14 THEN BatchLunch
    ELSE BatchEvening

\* ------------------------------------------------------------- activities
S0730Z == Stamp(7, 30, TRUE)
S1215Z == Stamp(12, 15, TRUE)
DefaultName == "Morning Walk"

Activity(type, trainer, start) ==
    [type |-> type, trainer |-> trainer, start_date_local |-> start,
     name |-> DefaultName]

\* The kinds of activity the provider may hold.
ActivityKinds ==
    { Activity("Walk", FALSE, S0730Z),
      Activity("Walk", TRUE, S0730Z),
      Activity("Run", FALSE, S0730Z),
      Activity("Walk", FALSE, <<>>) }

\* Walks at lunch time: one with the provider's name, one the athlete named.
LunchKinds ==
    { [Activity("Walk", FALSE, S1215Z) EXCEPT !.name = "Lunch Walk"],
      [Activity("Walk", FALSE, S1215Z) EXCEPT !.name = "Dog Patrol"] }

RECURSIVE SeqsUpTo(_, _)
SeqsUpTo(S, n) ==
    IF n = 0 THEN {<<>>}
    ELSE LET shorter == SeqsUpTo(S, n - 1) IN
         shorter \cup {Append(q, x) : q \in {r \in shorter : Len(r) = n - 1}, x \in S}


\* -------------------------------------------------------------- the clock
\* datetime.now() as [hour, minute, second, microsecond].
Micro == 1000000

\* The reset time with "<=" for "<" in the comparisons of the minute.
ResetTimeNotStrict(now) ==
    LET current_minute == now.minute
        next_reset_minute == IF current_minute <= 15 THEN 15
                             ELSE IF current_minute <= 30 THEN 30
                             ELSE IF current_minute <= 45 THEN 45
                             ELSE 0
        until == IF next_reset_minute = 0 THEN 60 ELSE next_reset_minute
        delta == ((until - now.minute) * 60 - now.second) * Micro - now.microsecond
    IN [next_reset |-> [day |-> IF next_reset_minute = 0 /\ now.hour = 23 THEN 1 ELSE 0,
                        hour |-> IF next_reset_minute = 0 THEN (now.hour + 1) % 24
                                 ELSE now.hour,
                        minute |-> next_reset_minute, second |-> 0, microsecond |-> 0],
        seconds_until_reset |-> delta \div Micro]

\* _calculate_next_reset_time: (next_reset, seconds_until_reset); next_reset
\* has the day it adds to today's.  next_reset - now is positive, so int()
\* of its total_seconds() is the quotient of the microseconds by 10^6.
calculate_next_reset_time(now) ==
    LET current_minute == now.minute
        next_reset_minute == IF current_minute < 15 THEN 15
                             ELSE IF current_minute < 30 THEN 30
                             ELSE IF current_minute < 45 THEN 45
                             ELSE 0
        until == IF next_reset_minute = 0 THEN 60 ELSE next_reset_minute
        delta == ((until - now.minute) * 60 - now.second) * Micro - now.microsecond
    IN [next_reset |-> [day |-> IF next_reset_minute = 0 /\ now.hour = 23 THEN 1 ELSE 0,
                        hour |-> IF next_reset_minute = 0 THEN (now.hour + 1) % 24
                                 ELSE now.hour,
                        minute |-> next_reset_minute, second |-> 0, microsecond |-> 0],
        seconds_until_reset |-> delta \div Micro]

\* _make_request_with_retry: wait_time.
WaitTime(now) == calculate_next_reset_time(now).seconds_until_reset + RATE_LIMIT_BUFFER

\* ------------------------------------------------- the rate-limit headers
\* The headers of a response as [limit, usage, read_limit, read_usage], for
\* X-RateLimit-Limit, X-RateLimit-Usage, X-ReadRateLimit-Limit and
\* X-ReadRateLimit-Usage.  Each is "absent" (or empty), a "pair" of numbers
\* ("200,2000"), a "half" (a number followed by nothing or by no number:
\* "200", "200,x") or "bad" (no number first: "x,2000").
HeaderKinds == {"absent", "pair", "half", "bad"}

NoHeaders == [limit |-> "absent", usage |-> "absent",
              read_limit |-> "absent", read_usage |-> "absent"]

\* One "if ...:" block of _parse_rate_limit_headers on a header of kind h:
\* the keys it stores, and whether int() or the index raised.
ParsePair(h, first, second) ==
    CASE h = "absent" -> [keys |-> {}, raised |-> FALSE]
      [] h = "pair" -> [keys |-> {first, second}, raised |-> FALSE]
      [] h = "half" -> [keys |-> {first}, raised |-> TRUE]
      [] h = "bad" -> [keys |-> {}, raised |-> TRUE]

\* _parse_rate_limit_headers: the keys of result.  The four blocks stand in
\* one try: the first that raises ends the parsing.
parse_rate_limit_headers(headers) ==
    LET b1 == ParsePair(headers.limit, "overall_15min_limit", "overall_daily_limit")
        b2 == ParsePair(headers.usage, "overall_15min_usage", "overall_daily_usage")
        b3 == ParsePair(headers.read_limit, "read_15min_limit", "read_daily_limit")
        b4 == ParsePair(headers.read_usage, "read_15min_usage", "read_daily_usage")
    IN IF b1.raised THEN b1.keys
       ELSE IF b2.raised THEN b1.keys \cup b2.keys
       ELSE IF b3.raised THEN b1.keys \cup b2.keys \cup b3.keys
       ELSE b1.keys \cup b2.keys \cup b3.keys \cup b4.keys

\* The report of _make_request_with_retry on a 429: TRUE when one of its
\* prints raises KeyError (limits[...] of a key that is not in limits).
ReportRaises(limits) ==
    \/ "overall_15min_usage" \in limits /\ "overall_15min_limit" \notin limits
    \/ "read_15min_usage" \in limits /\ "read_15min_limit" \notin limits
    \/ "read_daily_usage" \in limits /\ "read_daily_limit" \notin limits

\* ------------------------------------------------------------------ state
VARIABLES
    store,      \* Firestore document auth/strava_config: [exists, refresh_token, verify_token]
    issued,     \* provider: the refresh token it issued last (the one it accepts)
    acts,       \* provider: the athlete's activities, in the order it lists them
    inp,        \* the input of the current unit (the HTTP request, or argv and environment)
    pc,         \* where the current unit stands: the request it is about to send
    phase,      \* "request" | "backoff" (time.sleep(wait_time)) | "pace" (time.sleep(REQUEST_DELAY))
                \* | "interrupted" | "raised" (how a run met its end in the wrapper)
    reply,      \* the webhook's answer: [body, status, challenge]
    exitCode,   \* the backfill process's exit status (-1 while it runs)
    ev,         \* locals of handle_event_processing
    bf,         \* the StravaBackfiller object
    fetched,    \* fetch_activities: activities
    page,       \* fetch_activities: page
    idx,        \* process_activities: i
    attempt,    \* _make_request_with_retry: attempt
    response,   \* _make_request_with_retry: status of response
    log,        \* the requests sent, with their answers: by the event being handled,
                \* or by the batch run's latest call of _make_request_with_retry
    ret,        \* what the last call of _make_request_with_retry returned
    decisions,  \* process_activities: what was decided for each activity visited
    n429,       \* requests of this unit that were answered 429
    fnIn,       \* the argument of a function taken alone (a timestamp: [hour, text];
                \* a time of the clock)
    fnOut       \* <<function, result>> once a function was applied to it

unitVars == <<inp, pc, phase, reply, exitCode, ev, bf, fetched, page, idx,
              attempt, response, log, ret, decisions, n429>>
envVars == <<store, issued, acts>>
fnVars == <<fnIn, fnOut>>
vars == <<store, issued, acts, inp, pc, phase, reply, exitCode, ev, bf, fetched,
          page, idx, attempt, response, log, ret, decisions, n429, fnIn, fnOut>>

ZeroStats == [total_fetched |-> 0, walks_found |-> 0, already_named |-> 0,
              to_rename |-> 0, renamed |-> 0, errors |-> 0]
NoBf == [client_id |-> 0, client_secret |-> 0, refresh_token |-> 0,
         dry_run |-> FALSE, access_token |-> 0, stats |-> ZeroStats]
NoEv == [object_id |-> 0, refresh_token |-> 0, access_token |-> 0,
         old_name |-> "", new_name |-> "", persist |-> "none"]
NoReply == [body |-> "", status |-> 0, challenge |-> 0]
NoRet == [ep |-> "", arg |-> 0, status |-> 0]
NoInp == [kind |-> "none"]
NoStamp == [hour |-> 0, text |-> <<>>]

\* The documents the store may hold when the program starts.
StoreInits ==
    { [exists |-> FALSE, refresh_token |-> 0, verify_token |-> 0],
      [exists |-> TRUE, refresh_token |-> 0, verify_token |-> 0],
      [exists |-> TRUE, refresh_token |-> 1, verify_token |-> 1] }

Init ==
    /\ store \in StoreInits
    /\ issued = 1
    /\ acts \in SeqsUpTo(ActivityKinds, MaxActs)
    /\ inp = NoInp
    /\ pc = "idle"
    /\ phase = "request"
    /\ reply = NoReply
    /\ exitCode = -1
    /\ ev = NoEv
    /\ bf = NoBf
    /\ fetched = <<>>
    /\ page = 0
    /\ idx = 0
    /\ attempt = 0
    /\ response = 0
    /\ log = <<>>
    /\ ret = NoRet
    /\ decisions = <<>>
    /\ n429 = 0
    /\ fnIn = NoStamp
    /\ fnOut = <<>>

\* A unit starts when none is running.
Idle == pc = "idle"

FailStatuses == {401, 429}

\* A request sent without its Authorization header.
SentWithoutToken(m, ep, arg, name, tok, status) ==
    [m |-> m, ep |-> ep, arg |-> arg, name |-> name, tok |-> 0, status |-> status]

\* One entry of the log.
\* ep is the endpoint ("token", "list", "activity"), arg the refresh token, the
\* page or the activity id, name the PUT's body, tok the bearer token, status
\* the answer's status (0: requests raised).
Sent(m, ep, arg, name, tok, status) ==
    [m |-> m, ep |-> ep, arg |-> arg, name |-> name, tok |-> tok, status |-> status]

OK200 == [body |-> "OK", status |-> 200, challenge |-> 0]

\* ---------------------------------------------------------------- webhook
\* get_firestore_config: raises when the read fails or the document is missing.
get_firestore_config(store_up) ==
    [raised |-> ~(store_up /\ store.exists), doc |-> store]

\* strava_webhook with a method that is neither GET nor POST.
WebhookOtherMethod ==
    /\ Idle
    /\ inp' = [kind |-> "http", method |-> "DELETE"]
    /\ reply' = [body |-> "Method not allowed", status |-> 405, challenge |-> 0]
    /\ pc' = "done"
    /\ phase' = "request" /\ exitCode' = -1 /\ ev' = NoEv /\ bf' = NoBf
    /\ fetched' = <<>> /\ page' = 0 /\ idx' = 0 /\ attempt' = 0 /\ response' = 0
    /\ log' = <<>> /\ ret' = NoRet /\ decisions' = <<>> /\ n429' = 0
    /\ UNCHANGED <<envVars, fnVars>>

\* The verification without the comparison of the tokens.
VerificationEchoAlways(q, store_up) ==
    IF q.hub_mode = 0 \/ q.hub_challenge = 0 \/ q.hub_verify_token = 0
    THEN [body |-> "Bad Request", status |-> 400, challenge |-> 0]
    ELSE IF get_firestore_config(store_up).raised
    THEN [body |-> "Internal Server Error", status |-> 500, challenge |-> 0]
    ELSE [body |-> "hub.challenge", status |-> 200, challenge |-> q.hub_challenge]

\* handle_webhook_verification: the answer to the GET request q.
handle_webhook_verification(q, store_up) ==
    IF q.hub_mode = 0 \/ q.hub_challenge = 0 \/ q.hub_verify_token = 0
    THEN [body |-> "Bad Request", status |-> 400, challenge |-> 0]
    ELSE IF get_firestore_config(store_up).raised
    THEN [body |-> "Internal Server Error", status |-> 500, challenge |-> 0]
    ELSE IF store.verify_token = 0
    THEN [body |-> "Internal Server Error", status |-> 500, challenge |-> 0]
    ELSE IF q.hub_verify_token # store.verify_token
    THEN [body |-> "Forbidden", status |-> 403, challenge |-> 0]
    ELSE [body |-> "hub.challenge", status |-> 200, challenge |-> q.hub_challenge]

\* strava_webhook, GET.
WebhookVerification ==
    /\ Idle
    /\ \E hub_mode \in {0, 1}, hub_challenge \in {0, 7}, hub_verify_token \in {0, 1, 2},
          store_up \in BOOLEAN :
          LET q == [kind |-> "http", method |-> "GET", hub_mode |-> hub_mode,
                    hub_challenge |-> hub_challenge,
                    hub_verify_token |-> hub_verify_token, store_up |-> store_up]
          IN /\ inp' = q
             /\ reply' = handle_webhook_verification(q, store_up)
    /\ pc' = "done"
    /\ phase' = "request" /\ exitCode' = -1 /\ ev' = NoEv /\ bf' = NoBf
    /\ fetched' = <<>> /\ page' = 0 /\ idx' = 0 /\ attempt' = 0 /\ response' = 0
    /\ log' = <<>> /\ ret' = NoRet /\ decisions' = <<>> /\ n429' = 0
    /\ UNCHANGED <<envVars, fnVars>>


\* ------------------------------------------------------------- event path
\* What the OAuth token endpoint may answer to refresh token rt: [status,
\* access_token, refresh_token].  It accepts only the token it issued last and
\* then may rotate it; status 0 is an exception raised by requests.
TokenAnswers(rt) ==
    { [status |-> s, access_token |-> 0, refresh_token |-> 0] : s \in FailStatuses \cup {0} }
    \cup (IF rt = issued
          THEN { [status |-> 200, access_token |-> 1, refresh_token |-> n] :
                 n \in {0, issued} \cup (IF issued <= MaxRotations THEN {issued + 1} ELSE {}) }
          ELSE {})

\* What GET /activities/{id} may answer: [status, activity].
ActivityAnswers(id) ==
    { [status |-> s, activity |-> 0] : s \in FailStatuses \cup {0} }
    \cup (IF id \in 1..Len(acts)
          THEN { [status |-> 200, activity |-> id] }
          ELSE { [status |-> 404, activity |-> 0] })

\* What PUT /activities/{id} may answer.
PutAnswers(id) ==
    FailStatuses \cup {0} \cup (IF id \in 1..Len(acts) THEN {200} ELSE {404})

\* The provider's activities after a PUT of name answered with status.
Renamed(id, name, status) ==
    IF status = 200 THEN [acts EXCEPT ![id].name = name] ELSE acts

EnvCreds == { <<1, 1>>, <<0, 1>>, <<1, 0>> }

\* The handler answering 500 when something failed.
EventReturnErrorStatus(why) ==
    IF why \in {"ok", "filtered"} THEN OK200
    ELSE [body |-> "Internal Server Error", status |-> 500, challenge |-> 0]

\* The answer of handle_event_processing when it returns because of why.
EventReturn(why) == OK200

\* The handler without its filter on aspect_type.
EventEntryAnyAspect(q) ==
    IF ~q.json THEN "no_json"
    ELSE IF q.object_id = 0 THEN "no_object_id"
    ELSE IF get_firestore_config(q.store_up).raised THEN "config_error"
    ELSE IF store.refresh_token = 0 THEN "no_refresh_token"
    ELSE IF q.env_id = 0 \/ q.env_secret = 0 THEN "no_client_credentials"
    ELSE "token"

\* handle_event_processing up to the token request of get_access_token:
\* "token" when the request is to be sent, else the reason it returned.
EventEntry(q) ==
    IF ~q.json THEN "no_json"
    ELSE IF q.aspect_type # "create" THEN "not_create"
    ELSE IF q.object_id = 0 THEN "no_object_id"
    ELSE IF get_firestore_config(q.store_up).raised THEN "config_error"
    ELSE IF store.refresh_token = 0 THEN "no_refresh_token"
    ELSE IF q.env_id = 0 \/ q.env_secret = 0 THEN "no_client_credentials"
    ELSE "token"

\* strava_webhook, POST: handle_event_processing until it sends its first request.
WebhookPost ==
    /\ Idle
    /\ \E json \in BOOLEAN, aspect_type \in {"create", "update", "absent"},
          object_id \in 0..MaxActs, env \in EnvCreds, store_up \in BOOLEAN :
          LET q == [kind |-> "http", method |-> "POST", json |-> json,
                    aspect_type |-> aspect_type, object_id |-> object_id,
                    env_id |-> env[1], env_secret |-> env[2], store_up |-> store_up]
          IN \* what the handler does not get to read is not varied
             /\ EventEntry(q) \in {"no_json", "not_create"} => object_id = 0
             /\ EventEntry(q) \in {"no_json", "not_create", "no_object_id"} => store_up
             /\ EventEntry(q) \notin {"no_client_credentials", "token"} => env = <<1, 1>>
             /\ ~json => aspect_type = "create"
             /\ inp' = q
             /\ IF EventEntry(q) = "token"
                THEN /\ pc' = "e_token"
                     /\ reply' = NoReply
                     /\ ev' = [NoEv EXCEPT !.object_id = object_id,
                                           !.refresh_token = store.refresh_token]
                ELSE /\ pc' = "done"
                     /\ reply' = EventReturn(IF EventEntry(q) \in {"not_create"}
                                             THEN "filtered" ELSE "error")
                     /\ ev' = NoEv
    /\ phase' = "request" /\ exitCode' = -1 /\ bf' = NoBf
    /\ fetched' = <<>> /\ page' = 0 /\ idx' = 0 /\ attempt' = 0 /\ response' = 0
    /\ log' = <<>> /\ ret' = NoRet /\ decisions' = <<>> /\ n429' = 0
    /\ UNCHANGED <<envVars, fnVars>>

\* A token call that goes on when the write of the rotated token fails.
EventTokenIgnoresWriteFailure ==
    /\ pc = "e_token"
    /\ \E a \in TokenAnswers(ev.refresh_token), write_ok \in BOOLEAN :
          LET rotates == a.refresh_token # 0 /\ a.refresh_token # ev.refresh_token IN
          /\ write_ok \/ (a.status = 200 /\ rotates)
          /\ log' = Append(log, Sent("POST", "token", ev.refresh_token, "", 0, a.status))
          /\ issued' = IF a.status = 200 /\ a.refresh_token # 0 THEN a.refresh_token ELSE issued
          /\ IF a.status # 200
             THEN /\ pc' = "done" /\ reply' = EventReturn("error")
                  /\ UNCHANGED <<ev, store>>
             ELSE /\ pc' = "e_fetch" /\ reply' = NoReply
                  /\ ev' = [ev EXCEPT !.access_token = a.access_token,
                                      !.persist = IF ~rotates THEN "none"
                                                  ELSE IF write_ok THEN "ok" ELSE "failed"]
                  /\ store' = IF rotates /\ write_ok
                              THEN [store EXCEPT !.refresh_token = a.refresh_token]
                              ELSE store
    /\ UNCHANGED <<acts, inp, phase, exitCode, bf, fetched, page, idx, attempt,
                   response, ret, decisions, n429, fnVars>>

\* get_access_token (main.py) from its requests.post on, and the handler's
\* return when it raises.
EventToken ==
    /\ pc = "e_token"
    /\ \E a \in TokenAnswers(ev.refresh_token), write_ok \in BOOLEAN :
          LET rotates == a.refresh_token # 0 /\ a.refresh_token # ev.refresh_token IN
          /\ write_ok \/ (a.status = 200 /\ rotates)
          /\ log' = Append(log, Sent("POST", "token", ev.refresh_token, "", 0, a.status))
          /\ issued' = IF a.status = 200 /\ a.refresh_token # 0 THEN a.refresh_token ELSE issued
          /\ IF a.status # 200
             THEN /\ pc' = "done" /\ reply' = EventReturn("error")
                  /\ UNCHANGED <<ev, store>>
             ELSE IF rotates /\ ~write_ok
             THEN \* update_firestore_config raises
                  /\ pc' = "done" /\ reply' = EventReturn("error")
                  /\ ev' = [ev EXCEPT !.persist = "failed"]
                  /\ UNCHANGED store
             ELSE /\ pc' = "e_fetch" /\ reply' = NoReply
                  /\ ev' = [ev EXCEPT !.access_token = a.access_token,
                                      !.persist = IF rotates THEN "ok" ELSE "none"]
                  /\ store' = IF rotates
                              THEN [store EXCEPT !.refresh_token = a.refresh_token]
                              ELSE store
    /\ UNCHANGED <<acts, inp, phase, exitCode, bf, fetched, page, idx, attempt,
                   response, ret, decisions, n429, fnVars>>

\* The filters without the one on the category.
EventFilterNoCategory(a) ==
    IF a.trainer THEN "indoor"
    ELSE IF a.start_date_local = <<>> THEN "no_start_date"
    ELSE IF determine_activity_name(a.start_date_local) = "ValueError" THEN "raised"
    ELSE "put"

\* handle_event_processing after a fetched activity: "put" when the rename is
\* to be sent, else the filter that stopped it.
EventFilter(a) ==
    IF a.type # "Walk" THEN "not_walk"
    ELSE IF a.trainer THEN "indoor"
    ELSE IF a.start_date_local = <<>> THEN "no_start_date"
    ELSE IF determine_activity_name(a.start_date_local) = "ValueError" THEN "raised"
    ELSE "put"

\* get_activity_details and the filters after it.
EventFetch ==
    /\ pc = "e_fetch"
    /\ \E a \in ActivityAnswers(ev.object_id) :
          /\ log' = Append(log, Sent("GET", "activity", ev.object_id, "",
                                     ev.access_token, a.status))
          /\ IF a.status # 200
             THEN /\ pc' = "done" /\ reply' = EventReturn("error")
                  /\ decisions' = <<"fetch_failed">>
                  /\ UNCHANGED ev
             ELSE LET activity == acts[a.activity] IN
                  /\ decisions' = <<EventFilter(activity)>>
                  /\ IF EventFilter(activity) = "put"
                     THEN /\ pc' = "e_put" /\ reply' = NoReply
                          /\ ev' = [ev EXCEPT
                                      !.old_name = activity.name,
                                      !.new_name = determine_activity_name(activity.start_date_local)]
                     ELSE /\ pc' = "done"
                          /\ reply' = EventReturn(IF EventFilter(activity) = "raised"
                                                  THEN "error" ELSE "filtered")
                          /\ UNCHANGED ev
    /\ UNCHANGED <<envVars, inp, phase, exitCode, bf, fetched, page, idx, attempt,
                   response, ret, n429, fnVars>>

\* update_activity_name (main.py) and the handler's return.
EventPut ==
    /\ pc = "e_put"
    /\ \E status \in PutAnswers(ev.object_id) :
          /\ log' = Append(log, Sent("PUT", "activity", ev.object_id, ev.new_name,
                                     ev.access_token, status))
          /\ acts' = Renamed(ev.object_id, ev.new_name, status)
          /\ decisions' = <<IF status = 200 THEN "renamed" ELSE "error">>
          /\ reply' = EventReturn(IF status = 200 THEN "ok" ELSE "error")
    /\ pc' = "done"
    /\ UNCHANGED <<store, issued, inp, phase, exitCode, ev, bf, fetched, page, idx,
                   attempt, response, ret, n429, fnVars>>


\* ------------------------------------------------------------- batch path
ArgSets == { <<0, 0, 0>>, <<1, 1, 1>> }

\* The credentials as main would take them without its "Missing credentials" test.
CredentialsUnchecked(a) ==
    IF a.args_id # 0 /\ a.args_secret # 0 /\ a.args_refresh # 0
    THEN [ok |-> TRUE, client_id |-> a.args_id, client_secret |-> a.args_secret,
          refresh_token |-> a.args_refresh]
    ELSE IF ~a.firestore_available \/ get_firestore_config(a.store_up).raised
    THEN [ok |-> FALSE, client_id |-> 0, client_secret |-> 0, refresh_token |-> 0]
    ELSE [ok |-> TRUE,
          client_id |-> IF a.args_id # 0 THEN a.args_id ELSE a.env_id,
          client_secret |-> IF a.args_secret # 0 THEN a.args_secret ELSE a.env_secret,
          refresh_token |-> IF a.args_refresh # 0 THEN a.args_refresh
                            ELSE store.refresh_token]

\* main, "Get credentials": [ok, client_id, client_secret, refresh_token];
\* ok is FALSE where main calls sys.exit(1).
Credentials(a) ==
    IF a.args_id # 0 /\ a.args_secret # 0 /\ a.args_refresh # 0
    THEN [ok |-> TRUE, client_id |-> a.args_id, client_secret |-> a.args_secret,
          refresh_token |-> a.args_refresh]
    ELSE IF ~a.firestore_available \/ get_firestore_config(a.store_up).raised
    THEN [ok |-> FALSE, client_id |-> 0, client_secret |-> 0, refresh_token |-> 0]
    ELSE LET client_id == IF a.args_id # 0 THEN a.args_id ELSE a.env_id
             client_secret == IF a.args_secret # 0 THEN a.args_secret ELSE a.env_secret
             refresh_token == IF a.args_refresh # 0 THEN a.args_refresh
                              ELSE store.refresh_token
         IN [ok |-> client_id # 0 /\ client_secret # 0 /\ refresh_token # 0,
             client_id |-> client_id, client_secret |-> client_secret,
             refresh_token |-> refresh_token]

\* main up to backfiller.get_access_token()'s first request.
BatchStart ==
    /\ Idle
    /\ \E args \in ArgSets, env \in EnvCreds, firestore_available \in BOOLEAN,
          store_up \in BOOLEAN, dry_run \in BOOLEAN :
          LET a == [kind |-> "batch", args_id |-> args[1], args_secret |-> args[2],
                    args_refresh |-> args[3], env_id |-> env[1], env_secret |-> env[2],
                    firestore_available |-> firestore_available,
                    store_up |-> store_up, dry_run |-> dry_run]
              c == Credentials(a)
          IN \* what main does not get to read is not varied
             /\ args = <<1, 1, 1>> => (env = <<1, 1>> /\ firestore_available /\ store_up)
             /\ ~firestore_available => store_up
             /\ (~firestore_available \/ get_firestore_config(store_up).raised)
                   => env = <<1, 1>>
             /\ ~c.ok => ~dry_run
             /\ inp' = a
             /\ IF c.ok
                THEN /\ pc' = "b_token" /\ exitCode' = -1
                     /\ bf' = [NoBf EXCEPT !.client_id = c.client_id,
                                           !.client_secret = c.client_secret,
                                           !.refresh_token = c.refresh_token,
                                           !.dry_run = dry_run]
                ELSE /\ pc' = "done" /\ exitCode' = 1
                     /\ bf' = NoBf
    /\ phase' = "request" /\ reply' = NoReply /\ ev' = NoEv
    /\ fetched' = <<>> /\ page' = 0 /\ idx' = 0 /\ attempt' = 0 /\ response' = 0
    /\ log' = <<>> /\ ret' = NoRet /\ decisions' = <<>> /\ n429' = 0
    /\ UNCHANGED <<envVars, fnVars>>

\* A loop that retries every answer but 200.
RetryUnlessSuccess(status) == status # 200

\* _make_request_with_retry: the answer that makes the loop sleep and go on.
RateLimited(status) == status = 429

\* What GET /athlete/activities?page=p answers with status 200: the provider
\* puts at most ProviderPageMax activities on a page, and never more than per_page.
PageSize == IF PER_PAGE < ProviderPageMax THEN PER_PAGE ELSE ProviderPageMax

Item(k) == [id |-> k, type |-> acts[k].type, trainer |-> acts[k].trainer,
            name |-> acts[k].name, start_date_local |-> acts[k].start_date_local]

PageOf(p) ==
    LET first == (p - 1) * PageSize + 1
        last == IF p * PageSize < Len(acts) THEN p * PageSize ELSE Len(acts)
    IN [k \in 1..(IF last >= first THEN last - first + 1 ELSE 0) |-> Item(first + k - 1)]

\* process_activities that sends the rename in a dry run too.
RECURSIVE ProcessFromIgnoringDryRun(_, _, _)
ProcessFromIgnoringDryRun(i, st, dec) ==
    IF i > Len(fetched)
    THEN [k |-> "end", i |-> i, stats |-> st, decisions |-> dec]
    ELSE LET a == fetched[i]
             walk == [st EXCEPT !.walks_found = @ + 1]
             new_name == bf_determine_activity_name(a.start_date_local)
         IN IF a.type # "Walk"
            THEN ProcessFromIgnoringDryRun(i + 1, st, Append(dec, "not_walk"))
            ELSE IF a.trainer
            THEN ProcessFromIgnoringDryRun(i + 1, walk, Append(dec, "indoor"))
            ELSE IF new_name = "ValueError"
            THEN [k |-> "raise", i |-> i, stats |-> walk, decisions |-> dec]
            ELSE IF a.name = new_name
            THEN ProcessFromIgnoringDryRun(i + 1, [walk EXCEPT !.already_named = @ + 1],
                                           Append(dec, "already"))
            ELSE [k |-> "put", i |-> i, stats |-> [walk EXCEPT !.to_rename = @ + 1],
                  decisions |-> dec]

\* A process_activities that counts a Walk only after the indoor filter.
RECURSIVE ProcessFromIndoorNotCounted(_, _, _)
ProcessFromIndoorNotCounted(i, st, dec) ==
    IF i > Len(fetched)
    THEN [k |-> "end", i |-> i, stats |-> st, decisions |-> dec]
    ELSE LET a == fetched[i]
             walk == [st EXCEPT !.walks_found = @ + 1]
             new_name == bf_determine_activity_name(a.start_date_local)
         IN IF a.type # "Walk"
            THEN ProcessFromIndoorNotCounted(i + 1, st, Append(dec, "not_walk"))
            ELSE IF a.trainer
            THEN ProcessFromIndoorNotCounted(i + 1, st, Append(dec, "indoor"))
            ELSE IF new_name = "ValueError"
            THEN [k |-> "raise", i |-> i, stats |-> walk, decisions |-> dec]
            ELSE IF a.name = new_name
            THEN ProcessFromIndoorNotCounted(i + 1, [walk EXCEPT !.already_named = @ + 1],
                                             Append(dec, "already"))
            ELSE IF bf.dry_run
            THEN ProcessFromIndoorNotCounted(i + 1, [walk EXCEPT !.to_rename = @ + 1],
                                             Append(dec, "to_rename"))
            ELSE [k |-> "put", i |-> i, stats |-> [walk EXCEPT !.to_rename = @ + 1],
                  decisions |-> dec]

\* A process_activities that also skips the names is_already_dog_named accepts.
RECURSIVE ProcessFromSkipsMarked(_, _, _)
ProcessFromSkipsMarked(i, st, dec) ==
    IF i > Len(fetched)
    THEN [k |-> "end", i |-> i, stats |-> st, decisions |-> dec]
    ELSE LET a == fetched[i]
             walk == [st EXCEPT !.walks_found = @ + 1]
             new_name == bf_determine_activity_name(a.start_date_local)
         IN IF a.type # "Walk"
            THEN ProcessFromSkipsMarked(i + 1, st, Append(dec, "not_walk"))
            ELSE IF a.trainer
            THEN ProcessFromSkipsMarked(i + 1, walk, Append(dec, "indoor"))
            ELSE IF new_name = "ValueError"
            THEN [k |-> "raise", i |-> i, stats |-> walk, decisions |-> dec]
            ELSE IF a.name = new_name \/ is_already_dog_named(a.name)
            THEN ProcessFromSkipsMarked(i + 1, [walk EXCEPT !.already_named = @ + 1],
                                        Append(dec, "already"))
            ELSE IF bf.dry_run
            THEN ProcessFromSkipsMarked(i + 1, [walk EXCEPT !.to_rename = @ + 1],
                                        Append(dec, "to_rename"))
            ELSE [k |-> "put", i |-> i, stats |-> [walk EXCEPT !.to_rename = @ + 1],
                  decisions |-> dec]

\* process_activities from item i on, with statistics st and decisions dec, up
\* to the next rename it sends (k = "put"), its end (k = "end") or the
\* exception determine_activity_name raises (k = "raise").
RECURSIVE ProcessFrom(_, _, _)
ProcessFrom(i, st, dec) ==
    IF i > Len(fetched)
    THEN [k |-> "end", i |-> i, stats |-> st, decisions |-> dec]
    ELSE LET a == fetched[i]
             walk == [st EXCEPT !.walks_found = @ + 1]
             new_name == bf_determine_activity_name(a.start_date_local)
         IN IF a.type # "Walk"
            THEN ProcessFrom(i + 1, st, Append(dec, "not_walk"))
            ELSE IF a.trainer
            THEN ProcessFrom(i + 1, walk, Append(dec, "indoor"))
            ELSE IF new_name = "ValueError"
            THEN [k |-> "raise", i |-> i, stats |-> walk, decisions |-> dec]
            ELSE IF a.name = new_name
            THEN ProcessFrom(i + 1, [walk EXCEPT !.already_named = @ + 1],
                             Append(dec, "already"))
            ELSE IF bf.dry_run
            THEN ProcessFrom(i + 1, [walk EXCEPT !.to_rename = @ + 1],
                             Append(dec, "to_rename"))
            ELSE [k |-> "put", i |-> i, stats |-> [walk EXCEPT !.to_rename = @ + 1],
                  decisions |-> dec]


\* sys.exit(code), or main's return: the run is over.
Exit(code) == pc' = "done" /\ exitCode' = code /\ phase' = "request"

\* The failed rename ends the run (instead of being counted).
StartProcessAbortOnError(i, st, dec) ==
    IF st.errors > 0
    THEN /\ Exit(1)
         /\ bf' = [bf EXCEPT !.stats = st]
         /\ decisions' = dec
         /\ UNCHANGED <<idx, attempt>>
    ELSE LET r == ProcessFrom(i, st, dec) IN
         /\ bf' = [bf EXCEPT !.stats = r.stats]
         /\ decisions' = r.decisions
         /\ idx' = r.i
         /\ IF r.k = "put"
            THEN pc' = "b_put" /\ phase' = "request" /\ attempt' = 0 /\ exitCode' = -1
            ELSE Exit(IF r.k = "end" THEN 0 ELSE 1) /\ UNCHANGED attempt

\* process_activities resumed at item i, then print_summary and main's end.
StartProcess(i, st, dec) ==
    LET r == ProcessFrom(i, st, dec) IN
    /\ bf' = [bf EXCEPT !.stats = r.stats]
    /\ decisions' = r.decisions
    /\ idx' = r.i
    /\ IF r.k = "put"
       THEN pc' = "b_put" /\ phase' = "request" /\ attempt' = 0 /\ exitCode' = -1
       ELSE Exit(IF r.k = "end" THEN 0 ELSE 1) /\ UNCHANGED attempt

\* A token call that never raises.
TokenRejectedGoesOn(status) == FALSE

\* StravaBackfiller.get_access_token: the status it raises on.
TokenRejected(status) == status # 200

\* StravaBackfiller.get_access_token after its request returned, then
\* fetch_activities up to its first request.
AfterToken(status, access_token) ==
    /\ ret' = [ep |-> "token", arg |-> bf.refresh_token, status |-> status]
    /\ IF TokenRejected(status)
       THEN Exit(1) /\ UNCHANGED <<bf, fetched, page, idx, decisions, attempt>>
       ELSE /\ bf' = [bf EXCEPT !.access_token = access_token]
            /\ pc' = "b_list" /\ phase' = "request" /\ attempt' = 0 /\ exitCode' = -1
            /\ page' = 1 /\ fetched' = <<>>
            /\ UNCHANGED <<idx, decisions>>

\* fetch_activities keeping only the page it read last.
AfterListKeepsLastPage(status, page_activities) ==
    /\ ret' = [ep |-> "list", arg |-> page, status |-> status]
    /\ IF status # 200
       THEN Exit(1) /\ UNCHANGED <<bf, fetched, page, idx, decisions, attempt>>
       ELSE IF page_activities # <<>>
       THEN /\ fetched' = page_activities
            /\ page' = page + 1
            /\ phase' = "pace"
            /\ UNCHANGED <<pc, exitCode, bf, idx, decisions, attempt>>
       ELSE IF fetched = <<>>
       THEN /\ Exit(0)
            /\ bf' = [bf EXCEPT !.stats.total_fetched = 0]
            /\ UNCHANGED <<fetched, page, idx, decisions, attempt>>
       ELSE /\ StartProcess(1, [bf.stats EXCEPT !.total_fetched = Len(fetched)], <<>>)
            /\ UNCHANGED <<fetched, page>>

\* fetch_activities after a page's request returned; after the last page,
\* main goes on to process_activities.
AfterList(status, page_activities) ==
    /\ ret' = [ep |-> "list", arg |-> page, status |-> status]
    /\ IF status # 200
       THEN Exit(1) /\ UNCHANGED <<bf, fetched, page, idx, decisions, attempt>>
       ELSE IF page_activities # <<>>
       THEN /\ fetched' = fetched \o page_activities
            /\ page' = page + 1
            /\ phase' = "pace"
            /\ UNCHANGED <<pc, exitCode, bf, idx, decisions, attempt>>
       ELSE IF fetched = <<>>
       THEN /\ Exit(0)
            /\ bf' = [bf EXCEPT !.stats.total_fetched = 0]
            /\ UNCHANGED <<fetched, page, idx, decisions, attempt>>
       ELSE /\ StartProcess(1, [bf.stats EXCEPT !.total_fetched = Len(fetched)], <<>>)
            /\ UNCHANGED <<fetched, page>>

\* Every rename taken for a success.
AfterPutAlwaysRenamed(status) ==
    /\ ret' = [ep |-> "activity", arg |-> fetched[idx].id, status |-> status]
    /\ bf' = [bf EXCEPT !.stats.renamed = @ + 1]
    /\ decisions' = Append(decisions, "renamed")
    /\ phase' = "pace"
    /\ UNCHANGED <<pc, exitCode, fetched, page, idx, attempt>>

\* update_activity_name after its request returned, and process_activities
\* up to its sleep.
AfterPut(status) ==
    /\ ret' = [ep |-> "activity", arg |-> fetched[idx].id, status |-> status]
    /\ bf' = IF status = 200
             THEN [bf EXCEPT !.stats.renamed = @ + 1]
             ELSE [bf EXCEPT !.stats.errors = @ + 1]
    /\ decisions' = Append(decisions, IF status = 200 THEN "renamed" ELSE "error")
    /\ phase' = "pace"
    /\ UNCHANGED <<pc, exitCode, fetched, page, idx, attempt>>

\* _make_request_with_retry returns status to the caller that stands at site.
Return(site, status, access_token, page_activities) ==
    CASE site = "b_token" -> AfterToken(status, access_token)
      [] site = "b_list" -> AfterList(status, page_activities)
      [] site = "b_put" -> AfterPut(status)

\* The rate-limit headers that come with an answer: the provider sends all
\* four, each a pair; an answer that is not its own (a gateway's) has none.
\* Other headers are taken alone, by SpecHeaders.
HeaderCases ==
    { [limit |-> "pair", usage |-> "pair", read_limit |-> "pair", read_usage |-> "pair"],
      NoHeaders }

\* The headers are read on a 429 only.
ProviderHeaders(status) == IF status = 429 THEN HeaderCases ELSE {NoHeaders}

\* _make_request_with_retry after requests.request: requests raises (status
\* 0), or the wrapper reports the 429 (and may raise) and sleeps, or returns.
Answered(status, headers, access_token, page_activities) ==
    /\ response' = status
    /\ n429' = IF status = 429 /\ attempt = 0 THEN n429 + 1 ELSE n429
    /\ IF status = 0
       THEN Exit(1) /\ UNCHANGED <<bf, fetched, page, idx, decisions, ret, attempt>>
       ELSE IF RateLimited(status)
       THEN IF ReportRaises(parse_rate_limit_headers(headers))
            THEN \* KeyError: main prints the error and calls sys.exit(1)
                 /\ pc' = "done" /\ exitCode' = 1 /\ phase' = "raised"
                 /\ UNCHANGED <<bf, fetched, page, idx, decisions, ret, attempt>>
            ELSE /\ phase' = "backoff"
                 /\ UNCHANGED <<pc, exitCode, bf, fetched, page, idx, decisions, ret,
                                attempt>>
       ELSE Return(pc, status, access_token, page_activities)

\* The requests the running call of _make_request_with_retry has sent.
CallLog == IF attempt = 0 THEN <<>> ELSE log

\* The provider rate-limits at most MaxLimited requests of a unit (each of
\* them as often as it is sent).
MayAnswer(status) == status = 429 => (attempt > 0 \/ n429 < MaxLimited)

\* The token request of StravaBackfiller.get_access_token.
BatchTokenRequest ==
    /\ pc = "b_token" /\ phase = "request"
    /\ \E a \in TokenAnswers(bf.refresh_token), headers \in HeaderCases :
          /\ headers \in ProviderHeaders(a.status)
          /\ MayAnswer(a.status)
          /\ log' = Append(CallLog, Sent("POST", "token", bf.refresh_token, "", 0, a.status))
          /\ issued' = IF a.status = 200 /\ a.refresh_token # 0 THEN a.refresh_token ELSE issued
          /\ Answered(a.status, headers, a.access_token, <<>>)
    /\ UNCHANGED <<store, acts, inp, reply, ev, fnVars>>

\* One page request of fetch_activities.
BatchListRequest ==
    /\ pc = "b_list" /\ phase = "request"
    /\ \E status \in FailStatuses \cup {0, 200}, headers \in HeaderCases :
          /\ headers \in ProviderHeaders(status)
          /\ MayAnswer(status)
          /\ log' = Append(CallLog, Sent("GET", "list", page, "", bf.access_token, status))
          /\ Answered(status, headers, 0, IF status = 200 THEN PageOf(page) ELSE <<>>)
    /\ UNCHANGED <<envVars, inp, reply, ev, fnVars>>

\* The rename request of update_activity_name (backfill).
BatchPutRequest ==
    /\ pc = "b_put" /\ phase = "request"
    /\ LET a == fetched[idx]
           new_name == bf_determine_activity_name(a.start_date_local)
       IN \E status \in PutAnswers(a.id), headers \in HeaderCases :
             /\ headers \in ProviderHeaders(status)
             /\ MayAnswer(status)
             /\ log' = Append(CallLog, Sent("PUT", "activity", a.id, new_name,
                                        bf.access_token, status))
             /\ acts' = Renamed(a.id, new_name, status)
             /\ Answered(status, headers, 0, <<>>)
    /\ UNCHANGED <<store, issued, inp, reply, ev, fnVars>>

\* A backoff sleep that never ends.
BackoffNeverEnds ==
    /\ phase = "backoff"
    /\ UNCHANGED vars

\* time.sleep(wait_time) of _make_request_with_retry ends: the loop goes to
\* its next attempt, or is over and the last response is returned.
Backoff ==
    /\ phase = "backoff"
    /\ IF attempt + 1 < MAX_RETRIES
       THEN /\ attempt' = attempt + 1
            /\ phase' = "request"
            /\ UNCHANGED <<pc, exitCode, bf, fetched, page, idx, decisions, ret>>
       ELSE Return(pc, response, 0, <<>>)
    /\ UNCHANGED <<envVars, inp, reply, ev, log, response, n429, fnVars>>

\* time.sleep(REQUEST_DELAY) ends: fetch_activities asks for the next page,
\* process_activities goes to the next activity.
PaceDone ==
    /\ phase = "pace"
    /\ IF pc = "b_list"
       THEN /\ phase' = "request" /\ attempt' = 0
            /\ UNCHANGED <<pc, exitCode, bf, idx, decisions>>
       ELSE StartProcess(idx + 1, bf.stats, decisions)
    /\ UNCHANGED <<envVars, inp, reply, ev, fetched, page, response, log, ret,
                   n429, fnVars>>

\* An interrupt after which the process exits with status 0.
InterruptExitsZero ==
    /\ phase \in {"backoff", "pace"}
    /\ pc' = "done" /\ exitCode' = 0 /\ phase' = "interrupted"
    /\ UNCHANGED <<envVars, inp, reply, ev, bf, fetched, page, idx, attempt,
                   response, log, ret, decisions, n429, fnVars>>

\* KeyboardInterrupt during a sleep: main prints and calls sys.exit(1).
Interrupt ==
    /\ phase \in {"backoff", "pace"}
    /\ pc' = "done" /\ exitCode' = 1 /\ phase' = "interrupted"
    /\ UNCHANGED <<envVars, inp, reply, ev, bf, fetched, page, idx, attempt,
                   response, log, ret, decisions, n429, fnVars>>

\* The unit is over: the handler has answered or the process has exited, and
\* its locals are gone.
UnitEnds ==
    /\ pc = "done"
    /\ inp' = NoInp /\ pc' = "idle" /\ phase' = "request" /\ reply' = NoReply
    /\ exitCode' = -1 /\ ev' = NoEv /\ bf' = NoBf
    /\ fetched' = <<>> /\ page' = 0 /\ idx' = 0 /\ attempt' = 0 /\ response' = 0
    /\ log' = <<>> /\ ret' = NoRet /\ decisions' = <<>> /\ n429' = 0
    /\ UNCHANGED <<envVars, fnVars>>

Next ==
    \/ WebhookOtherMethod
    \/ WebhookVerification
    \/ WebhookPost
    \/ EventToken
    \/ EventFetch
    \/ EventPut
    \/ BatchStart
    \/ BatchTokenRequest
    \/ BatchListRequest
    \/ BatchPutRequest
    \/ Backoff
    \/ PaceDone
    \/ Interrupt
    \/ UnitEnds

Spec == Init /\ [][Next]_vars

\* The process runs on: a request that was sent is answered or raises, a
\* sleep ends.  Nothing is assumed of the starts of units or of interrupts.
Fairness ==
    /\ WF_vars(BatchTokenRequest)
    /\ WF_vars(BatchListRequest)
    /\ WF_vars(BatchPutRequest)
    /\ WF_vars(Backoff)
    /\ WF_vars(PaceDone)

\* The backfill script alone: it never reads the config store, and a webhook
\* unit cannot run inside a batch run.
InitBatch == Init /\ store.exists /\ store.refresh_token = 1

NextBatch ==
    \/ BatchStart
    \/ BatchTokenRequest
    \/ BatchListRequest
    \/ BatchPutRequest
    \/ Backoff
    \/ PaceDone
    \/ Interrupt
    \/ UnitEnds

SpecBatch == InitBatch /\ [][NextBatch]_vars /\ Fairness

\* The same program when the provider holds lunch-time walks.
InitLunch ==
    /\ store \in StoreInits
    /\ issued = 1
    /\ acts \in SeqsUpTo(LunchKinds, MaxActs)
    /\ inp = NoInp /\ pc = "idle" /\ phase = "request" /\ reply = NoReply
    /\ exitCode = -1 /\ ev = NoEv /\ bf = NoBf
    /\ fetched = <<>> /\ page = 0 /\ idx = 0 /\ attempt = 0 /\ response = 0
    /\ log = <<>> /\ ret = NoRet /\ decisions = <<>> /\ n429 = 0
    /\ fnIn = NoStamp /\ fnOut = <<>>

SpecLunch == InitLunch /\ [][Next]_vars


\* ------------------------------------------------- the naming functions
\* Every hour of the day, with and without the trailing "Z".
NameInit ==
    /\ store = [exists |-> TRUE, refresh_token |-> 1, verify_token |-> 1]
    /\ issued = 1
    /\ acts = <<>>
    /\ inp = NoInp /\ pc = "idle" /\ phase = "request" /\ reply = NoReply
    /\ exitCode = -1 /\ ev = NoEv /\ bf = NoBf
    /\ fetched = <<>> /\ page = 0 /\ idx = 0 /\ attempt = 0 /\ response = 0
    /\ log = <<>> /\ ret = NoRet /\ decisions = <<>> /\ n429 = 0
    /\ \E h \in 0..23, m \in {0, 30, 59}, z \in BOOLEAN :
          fnIn = [hour |-> h, text |-> Stamp(h, m, z)]
    /\ fnOut = <<>>

ApplyMainName ==
    /\ fnOut = <<>>
    /\ fnOut' = <<"main", determine_activity_name(fnIn.text)>>
    /\ UNCHANGED <<envVars, unitVars, fnIn>>

ApplyBatchName ==
    /\ fnOut = <<>>
    /\ fnOut' = <<"batch", bf_determine_activity_name(fnIn.text)>>
    /\ UNCHANGED <<envVars, unitVars, fnIn>>

NameNext == ApplyMainName \/ ApplyBatchName

SpecName == NameInit /\ [][NameNext]_vars

\* ---------------------------------------------------- the backoff's clock
ClockInit ==
    /\ \E h \in {0, 12, 23}, m \in 0..59, sec \in {0, 1, 30, 59},
          us \in {0, 1, 999999} :
          fnIn = [hour |-> h, minute |-> m, second |-> sec, microsecond |-> us]
    /\ fnOut = <<>>
    /\ store = [exists |-> FALSE, refresh_token |-> 0, verify_token |-> 0]
    /\ issued = 1 /\ acts = <<>>
    /\ inp = NoInp /\ pc = "idle" /\ phase = "request" /\ reply = NoReply
    /\ exitCode = -1 /\ ev = NoEv /\ bf = NoBf
    /\ fetched = <<>> /\ page = 0 /\ idx = 0 /\ attempt = 0 /\ response = 0
    /\ log = <<>> /\ ret = NoRet /\ decisions = <<>> /\ n429 = 0

\* _make_request_with_retry computes its wait at the time fnIn.
ApplyResetTime ==
    /\ fnOut = <<>>
    /\ fnOut' = <<"reset", calculate_next_reset_time(fnIn), WaitTime(fnIn)>>
    /\ UNCHANGED <<envVars, unitVars, fnIn>>

ClockNext == ApplyResetTime

SpecClock == ClockInit /\ [][ClockNext]_vars

\* ------------------------------------------------ the report of a 429
HeadersInit ==
    /\ \E l \in HeaderKinds, u \in HeaderKinds, rl \in HeaderKinds, ru \in HeaderKinds :
          fnIn = [limit |-> l, usage |-> u, read_limit |-> rl, read_usage |-> ru]
    /\ fnOut = <<>>
    /\ store = [exists |-> FALSE, refresh_token |-> 0, verify_token |-> 0]
    /\ issued = 1 /\ acts = <<>>
    /\ inp = NoInp /\ pc = "idle" /\ phase = "request" /\ reply = NoReply
    /\ exitCode = -1 /\ ev = NoEv /\ bf = NoBf
    /\ fetched = <<>> /\ page = 0 /\ idx = 0 /\ attempt = 0 /\ response = 0
    /\ log = <<>> /\ ret = NoRet /\ decisions = <<>> /\ n429 = 0

\* _make_request_with_retry on a 429 with the headers fnIn: the snapshot, and
\* whether it gets to its sleep or raises.
ApplyRateLimitReport ==
    /\ fnOut = <<>>
    /\ LET limits == parse_rate_limit_headers(fnIn)
       IN fnOut' = <<"report", limits,
                     IF ReportRaises(limits) THEN "KeyError" ELSE "sleep">>
    /\ UNCHANGED <<envVars, unitVars, fnIn>>

HeadersNext == ApplyRateLimitReport

SpecHeaders == HeadersInit /\ [][HeadersNext]_vars

\* ----------------------------------------------------------------- claims
IsBatch == inp.kind = "batch"
IsPost == inp.kind = "http" /\ inp.method = "POST"
IsGet == inp.kind = "http" /\ inp.method = "GET"
LogIdx == 1..Len(log)
Puts == {k \in LogIdx : log[k].m = "PUT"}
SameCall(j, k) ==
    log[j].m = log[k].m /\ log[j].ep = log[k].ep /\ log[j].arg = log[k].arg
CallOf(k) == [ep |-> log[k].ep, arg |-> log[k].arg, status |-> log[k].status]

C2_NameByHour ==
    fnOut # <<>> =>
        LET h == fnIn.hour
            labels == IF fnOut[1] = "main"
                      THEN <<MainMorning, MainLunch, MainEvening>>
                      ELSE <<BatchMorning, BatchLunch, BatchEvening>>
        IN fnOut[2] = (IF h \in 4..10 THEN labels[1]
                       ELSE IF h \in 11..13 THEN labels[2]
                       ELSE labels[3])

\* 03:59 with a trailing "Z" was named by main.py: the evening label.
C2_Witness ==
    /\ fnIn = [hour |-> 3, text |-> Stamp(3, 59, TRUE)]
    /\ fnOut = <<"main", MainEvening>>

\* The name the unit read for activity id before it renamed it.
OldNameSeen(id) ==
    IF IsBatch
    THEN fetched[CHOOSE j \in 1..Len(fetched) : fetched[j].id = id].name
    ELSE ev.old_name

\* C3: an activity whose current name is already the computed name (a run
\* renamed it before) gets no rename request, in the batch and the event path.
C3_SecondRunNoWrite ==
    \A k \in Puts : OldNameSeen(log[k].arg) # log[k].name

\* C4: no rename request is sent for an activity that is not a "Walk", for an
\* indoor Walk or (event path) for a Walk without start_date_local; the filters
\* are applied in this order and the first that fails ends the activity's
\* processing.
FilterOf(a, d) ==
    /\ d = "not_walk" <=> a.type # "Walk"
    /\ d = "indoor" <=> (a.type = "Walk" /\ a.trainer)

C5_RotationPersisted ==
    /\ (IsPost /\ ev.access_token # 0) => store.refresh_token = issued
    /\ (IsBatch /\ inp.args_refresh = 0 /\ bf.access_token # 0)
          => store.refresh_token = issued

\* C6: the token call gives no access token when the stored refresh token is
\* missing, when the client id or secret is missing, or when the answer it gets
\* from the token endpoint is not a 2xx; the unit then sends no activity
\* request.
TokenCallCannotSucceed ==
    \/ /\ IsPost /\ inp.json /\ inp.aspect_type = "create" /\ inp.object_id # 0
       /\ inp.store_up /\ store.exists
       /\ \/ store.refresh_token = 0
          \/ inp.env_id = 0 \/ inp.env_secret = 0
          \/ \E k \in LogIdx : log[k].ep = "token" /\ log[k].status \notin 200..299
    \/ /\ IsBatch
       /\ \/ /\ inp.args_refresh = 0
             /\ inp.firestore_available /\ inp.store_up /\ store.exists
             /\ \/ store.refresh_token = 0
                \/ inp.args_id = 0 /\ inp.env_id = 0
                \/ inp.args_secret = 0 /\ inp.env_secret = 0
          \/ ret.ep = "token" /\ ret.status \notin 200..299

C6_TokenFailureStops ==
    TokenCallCannotSucceed =>
        /\ pc = "done"
        /\ ev.access_token = 0 /\ bf.access_token = 0
        /\ \A k \in LogIdx : log[k].ep = "token"
        /\ IsBatch => exitCode = 1

\* The backfill's token request was answered 401 after a 429.
C6_Witness ==
    /\ IsBatch
    /\ ret.ep = "token" /\ ret.status = 401
    /\ Len(log) = 2

\* C7: whatever fails while a POST notification is handled, the webhook
\* answers ("OK", 200).
C7_AlwaysAcknowledged ==
    IsPost =>
        /\ reply.status \in {0, 200}
        /\ pc = "done" => (reply.body = "OK" /\ reply.status = 200)

\* The rename of the event path failed and the webhook has answered.
C7_Witness ==
    /\ IsPost /\ pc = "done"
    /\ \E k \in Puts : log[k].status = 401
    /\ reply = OK200

Classified(a, d) ==
    LET new_name == bf_determine_activity_name(a.start_date_local) IN
    IF a.type # "Walk" THEN d = "not_walk"
    ELSE IF a.trainer THEN d = "indoor"
    ELSE IF a.name = new_name THEN d = "already"
    ELSE IF bf.dry_run THEN d = "to_rename"
    ELSE /\ d \in {"renamed", "error"}
         /\ (ret.ep = "activity" /\ ret.arg = a.id)
               => (d = "renamed" <=> ret.status = 200)

\* The rename call that has just returned was the one for the activity that
\* was classified last, and carried its computed name.
LastRename ==
    phase = "pace" /\ pc = "b_put" =>
        LET a == fetched[Len(decisions)] IN
        /\ idx = Len(decisions)
        /\ decisions[idx] \in {"renamed", "error"}
        /\ ret.ep = "activity" /\ ret.arg = a.id
        /\ log # <<>>
        /\ \A k \in LogIdx :
              /\ log[k].m = "PUT" /\ log[k].arg = a.id
              /\ log[k].name = bf_determine_activity_name(a.start_date_local)

ExitCause ==
    \/ phase = "interrupted"
    \/ log = <<>>
    \/ log[Len(log)].status = 0
    \/ ret.ep \in {"token", "list"} /\ ret.status # 200
    \/ /\ idx \in 1..Len(fetched)
       /\ bf_determine_activity_name(fetched[idx].start_date_local) = "ValueError"

AuthOrConfigError ==
    \/ /\ ~(inp.args_id # 0 /\ inp.args_secret # 0 /\ inp.args_refresh # 0)
       /\ \/ ~inp.firestore_available
          \/ ~inp.store_up
          \/ ~store.exists
          \/ inp.args_id = 0 /\ inp.env_id = 0
          \/ inp.args_secret = 0 /\ inp.env_secret = 0
          \/ inp.args_refresh = 0 /\ store.refresh_token = 0
    \/ ret.ep = "token" /\ ret.status # 200

C10_AuthErrorAborts ==
    (IsBatch /\ AuthOrConfigError) =>
        /\ pc = "done" /\ exitCode = 1
        /\ \A k \in LogIdx : log[k].ep = "token"

\* The config document is missing: the run exited before any request.
C10_Witness ==
    /\ IsBatch /\ pc = "done" /\ exitCode = 1
    /\ inp.args_refresh = 0 /\ inp.firestore_available /\ inp.store_up
    /\ ~store.exists
    /\ log = <<>>

\* C11: fetch_activities asks for the pages 1, 2, 3, ... in this order, each of
\* at most 100 items, stops at the first empty page and asks for none after
\* it; what it returns is the pages before it, concatenated in the provider's
\* order, and total_fetched is their length.
RECURSIVE Pages(_)
Pages(p) == IF p <= 0 THEN <<>> ELSE Pages(p - 1) \o PageOf(p)

Unnamed(items) == [k \in 1..Len(items) |-> [items[k] EXCEPT !.name = ""]]

\* fetch_activities has returned.
ListingOver == idx > 0 \/ (pc = "done" /\ exitCode = 0)

C11_Pagination ==
    (IsBatch /\ page > 0) =>
        /\ \A p \in 1..(page - 1) : PageOf(p) # <<>> /\ Len(PageOf(p)) <= 100
        /\ Unnamed(fetched) = Unnamed(Pages(page - 1))
        /\ \A k \in LogIdx : log[k].ep = "list" =>
              IF pc = "b_list" /\ (phase = "pace" \/ (phase = "request" /\ attempt = 0))
              THEN log[k].arg = page - 1
              ELSE IF pc = "b_list" \/ ListingOver
              THEN log[k].arg = page
              ELSE log[k].arg \in {page - 1, page}
        /\ pc = "b_list" => fetched = Pages(page - 1)
        /\ ListingOver =>
              /\ PageOf(page) = <<>>
              /\ bf.stats.total_fetched = Len(fetched)

\* Two pages were read, the third was empty, and the run came to its end.
C11_Witness ==
    /\ IsBatch /\ pc = "done" /\ exitCode = 0
    /\ page = 3 /\ Len(fetched) >= 2
    /\ bf.stats.total_fetched = Len(fetched)

\* C12: the backoff aims at the first quarter-hour boundary (minute 0, 15, 30
\* or 45) strictly after the current minute, the top of the next hour when the
\* minute is 45 or more; the wait is the whole seconds until it plus 5 seconds,
\* hence between 5 and 905 seconds.
C12_BackoffTarget ==
    fnOut # <<>> =>
        LET now == fnIn
            r == fnOut[2].next_reset
            secs == fnOut[2].seconds_until_reset
            wait == fnOut[3]
            next_hour == r.hour # now.hour
            until == IF next_hour THEN 60 ELSE r.minute
            left == ((until - now.minute) * 60 - now.second) * 1000000 - now.microsecond
        IN /\ r.minute \in {0, 15, 30, 45} /\ r.second = 0 /\ r.microsecond = 0
           /\ next_hour <=> now.minute >= 45
           /\ next_hour => (r.minute = 0 /\ r.hour = (now.hour + 1) % 24
                             /\ r.day = (IF now.hour = 23 THEN 1 ELSE 0))
           /\ ~next_hour => r.day = 0
           /\ until > now.minute
           /\ \A b \in {15, 30, 45, 60} : b > now.minute => until <= b
           /\ secs * 1000000 <= left /\ left < (secs + 1) * 1000000
           /\ wait = secs + 5
           /\ wait \in 5..905

\* At 23:46:30 the target is 00:00 of the next day, 810 seconds away.
C12_Witness ==
    /\ fnIn = [hour |-> 23, minute |-> 46, second |-> 30, microsecond |-> 0]
    /\ fnOut # <<>>
    /\ fnOut[2].next_reset.hour = 0 /\ fnOut[2].next_reset.day = 1
    /\ fnOut[3] = 815

\* C13: a live run sends, for an outdoor Walk whose name is not the computed
\* one, exactly one rename operation, whose body is the computed label, and
\* classifies the activity as renamed when the answer is 200, as error
\* otherwise.
ToRename(a) ==
    /\ a.type = "Walk" /\ ~a.trainer
    /\ a.name # bf_determine_activity_name(a.start_date_local)

RenameDecisions == {j \in 1..Len(decisions) : decisions[j] \in {"renamed", "error"}}

C13_OneRenamePerEligible ==
    /\ (IsBatch /\ ~bf.dry_run) =>
          /\ \A j \in 1..Len(decisions) : j \in RenameDecisions <=> ToRename(fetched[j])
          /\ bf.stats.renamed + bf.stats.errors = Cardinality(RenameDecisions)
          /\ pc \in {"b_list", "b_put"} =>
                bf.stats.to_rename = Cardinality(RenameDecisions)
                   + (IF pc = "b_put" /\ phase # "pace" THEN 1 ELSE 0)
          /\ (pc = "b_put" /\ (attempt > 0 \/ phase # "request")) =>
                /\ ToRename(fetched[idx])
                /\ log # <<>>
                /\ \A k \in LogIdx :
                      /\ log[k].m = "PUT" /\ log[k].arg = fetched[idx].id
                      /\ log[k].name = bf_determine_activity_name(fetched[idx].start_date_local)
          /\ (pc = "b_put" /\ phase = "pace") =>
                /\ decisions[idx] = "renamed" <=> log[Len(log)].status = 200
                /\ decisions[idx] = "error" <=> log[Len(log)].status # 200
                /\ log[Len(log)].status = 200 => acts[fetched[idx].id].name = log[Len(log)].name
    /\ IsPost =>
          /\ Cardinality(Puts) <= 1
          /\ \A k \in Puts :
                /\ log[k].arg = ev.object_id
                /\ log[k].name = determine_activity_name(acts[log[k].arg].start_date_local)
                /\ decisions = <<IF log[k].status = 200 THEN "renamed" ELSE "error">>
          /\ pc = "done" => decisions # <<"put">>

\* "Morning Walk" of 07:30 was renamed by a live batch run to the morning label.
C13_Witness ==
    /\ IsBatch /\ ~bf.dry_run /\ pc = "b_put" /\ phase = "pace"
    /\ fetched[idx].name = "Morning Walk" /\ fetched[idx].start_date_local = S0730Z
    /\ log[Len(log)].name = BatchMorning /\ log[Len(log)].status = 200
    /\ decisions[idx] = "renamed"
    /\ acts[fetched[idx].id].name = BatchMorning

\* C14: a dry run sends no rename request and changes no activity name; the
\* activities to rename are counted in to_rename, renamed and errors stay 0.
C14_DryRunWritesNothing ==
    (IsBatch /\ inp.dry_run) =>
        /\ \A k \in LogIdx : log[k].m # "PUT" /\ log[k].ep \in {"token", "list"}
        /\ pc # "b_put"
        /\ \A j \in 1..Len(fetched) : acts[fetched[j].id].name = fetched[j].name
        /\ \A j \in 1..Len(decisions) :
              decisions[j] = "to_rename" <=> ToRename(fetched[j])
        /\ bf.stats.to_rename
              = Cardinality({j \in 1..Len(decisions) : decisions[j] = "to_rename"})
        /\ bf.stats.renamed = 0 /\ bf.stats.errors = 0

\* A dry run found an activity to rename and ended without touching it.
C14_Witness ==
    /\ IsBatch /\ inp.dry_run /\ pc = "done" /\ exitCode = 0
    /\ bf.stats.to_rename > 0
    /\ \E j \in 1..Len(fetched) :
          ToRename(fetched[j]) /\ acts[fetched[j].id].name = "Morning Walk"

\* C15: a POST notification whose aspect_type is not "create" (or is absent)
\* is acknowledged without a token refresh, a write to the config store, a
\* fetch or a rename.
C15_OnlyCreateProcessed ==
    (IsPost /\ inp.json /\ inp.aspect_type # "create") =>
        /\ pc = "done"
        /\ log = <<>>
        /\ ev = NoEv
        /\ reply = OK200

\* An "update" notification and one without aspect_type were acknowledged.
C15_Witness ==
    /\ IsPost /\ inp.json /\ inp.aspect_type \in {"update", "absent"}
    /\ store.exists /\ store.refresh_token # 0
    /\ pc = "done" /\ reply = OK200

\* C16: in the event and in the batch path a token request answered 429 is
\* sent again, up to three times, before the token call is given up.
C16_TokenRefreshRetried ==
    (pc = "done" /\ phase # "interrupted") =>
        \A k \in LogIdx :
            (log[k].ep = "token" /\ log[k].status = 429 /\ k < 3)
                => (k < Len(log) /\ log[k + 1].ep = "token")

\* The part of C16 that is about the batch path.
C16_BatchTokenRefreshRetried == IsBatch => C16_TokenRefreshRetried

\* C17: every list, fetch and rename request carries the access token that a
\* refresh answered 200 gave to the current unit; a unit starts without a
\* token and none is kept from one unit to the next.
C17_TokenOfThisUnit ==
    /\ pc = "idle" => (ev = NoEv /\ bf = NoBf)
    /\ IsPost =>
          \A k \in LogIdx : log[k].ep = "activity" =>
              /\ log[k].tok # 0 /\ log[k].tok = ev.access_token
              /\ k > 1 /\ log[1].ep = "token" /\ log[1].status = 200
    /\ IsBatch =>
          /\ \A k \in LogIdx : log[k].ep \in {"list", "activity"} =>
                (log[k].tok # 0 /\ log[k].tok = bf.access_token)
          /\ pc = "b_token" => (bf.access_token = 0 /\ \A k \in LogIdx : log[k].ep = "token")
          /\ (pc = "b_list" /\ page = 1 /\ phase = "request" /\ attempt = 0) =>
                /\ log # <<>>
                /\ log[Len(log)].ep = "token" /\ log[Len(log)].status = 200
          /\ pc \in {"b_list", "b_put"} => bf.access_token # 0

\* An event's rename went out with the token its own refresh had obtained.
C17_Witness ==
    /\ IsPost /\ Len(log) = 3
    /\ log[1].ep = "token" /\ log[1].status = 200
    /\ log[3].m = "PUT" /\ log[3].tok = ev.access_token /\ ev.access_token # 0

\* C18: a backoff sleep that ends (uninterrupted) is followed by another
\* attempt of the same request.
SleepThenRetry ==
    (phase = "backoff" /\ phase' \notin {"backoff", "interrupted"}) =>
        /\ phase' = "request" /\ pc' = pc
        /\ attempt' = attempt + 1

C18_SleepThenRetry == [][SleepThenRetry]_vars

\* The part of C18 that holds: so it is after the first and the second 429.
C18_SleepThenRetryButLast == [][attempt + 1 < 3 => SleepThenRetry]_vars

\* C19: in both paths a list, fetch or rename request that succeeds is
\* followed by the pacing delay before the unit sends its next request.
Succeeds ==
    /\ log' # log /\ log' # <<>>
    /\ log'[Len(log')].ep # "token" /\ log'[Len(log')].status = 200

PacedAfter == phase' = "pace" \/ pc' = "done"

C19_PacedAfterSuccess == [][Succeeds => PacedAfter]_vars

\* The part of C19 that holds: the batch path sleeps after every page that is
\* not empty and after every rename.
C19_BatchPacedButLastPage ==
    [][(Succeeds /\ IsBatch /\ ~(pc = "b_list" /\ PageOf(page) = <<>>)) => PacedAfter]_vars

\* C20: on a 429, whichever of the four rate-limit headers are there, missing
\* or malformed, the wrapper does not raise: its snapshot leaves out the fields
\* of the headers that are absent, and it goes on to its sleep.
KeysOf(header) ==
    CASE header = "limit" -> {"overall_15min_limit", "overall_daily_limit"}
      [] header = "usage" -> {"overall_15min_usage", "overall_daily_usage"}
      [] header = "read_limit" -> {"read_15min_limit", "read_daily_limit"}
      [] header = "read_usage" -> {"read_15min_usage", "read_daily_usage"}

C20_HeadersNeverRaise ==
    fnOut # <<>> =>
        /\ fnOut[3] = "sleep"
        /\ \A header \in {"limit", "usage", "read_limit", "read_usage"} :
              fnIn[header] = "absent" => KeysOf(header) \cap fnOut[2] = {}

\* The part of C20 that holds: the parsing itself never raises and stores
\* nothing for a header that is absent.
C20_AbsentFieldsOmitted ==
    fnOut # <<>> =>
        \A header \in {"limit", "usage", "read_limit", "read_usage"} :
            fnIn[header] = "absent" => KeysOf(header) \cap fnOut[2] = {}

\* C21: an interrupt during a backoff or a pacing sleep ends the batch run: the
\* run exits with a status that is not 0 and sends no request after it (no
\* retry, no further page, no further rename).
InterruptAborts ==
    /\ phase' = "interrupted" =>
          /\ phase \in {"backoff", "pace", "interrupted"}
          /\ pc' = "done" /\ exitCode' # 0 /\ exitCode' # -1
          /\ log' = log /\ acts' = acts /\ store' = store
    /\ phase = "interrupted" => (phase' = "interrupted" \/ pc' = "idle")

C21_InterruptAborts == [][InterruptAborts]_vars

\* A run was interrupted while it waited to retry a rename answered 429.
C21_Witness ==
    /\ IsBatch /\ phase = "interrupted" /\ pc = "done" /\ exitCode = 1
    /\ log # <<>> /\ log[Len(log)].m = "PUT" /\ log[Len(log)].status = 429
    /\ Len(decisions) < Len(fetched)

\* C22: when the write of a rotated refresh token to the config store fails,
\* the token call gives no access token and the unit sends no fetch and no
\* rename: it ends there.
C22_PersistFailureIsFatal ==
    ev.persist = "failed" =>
        /\ IsPost /\ pc = "done"
        /\ ev.access_token = 0
        /\ Len(log) = 1 /\ log[1].ep = "token" /\ log[1].status = 200
        /\ decisions = <<>>
        /\ store.refresh_token = ev.refresh_token

\* The provider rotated the refresh token, the write failed, the event ended.
C22_Witness ==
    /\ IsPost /\ pc = "done" /\ ev.persist = "failed"
    /\ issued # store.refresh_token
    /\ reply = OK200

\* C23: the batch run skips an outdoor Walk exactly when its name equals the
\* computed name; a name that holds a theme marker without being the computed
\* name is to rename (renamed or error in a live run); is_already_dog_named
\* decides nothing.
C23_SkipByEqualityOnly ==
    IsBatch =>
        \A j \in 1..Len(decisions) :
            LET a == fetched[j]
                new_name == bf_determine_activity_name(a.start_date_local) IN
            /\ decisions[j] = "already" <=>
                   (a.type = "Walk" /\ ~a.trainer /\ a.name = new_name)
            /\ (a.type = "Walk" /\ ~a.trainer /\ a.name # new_name) =>
                   decisions[j] \in (IF bf.dry_run THEN {"to_rename"}
                                     ELSE {"renamed", "error"})

\* "Dog Patrol" at 12:15 holds a marker and was renamed; a walk already named
\* with the lunch label would have been skipped.
C23_Witness ==
    /\ IsBatch /\ ~bf.dry_run /\ pc = "b_put" /\ phase = "pace"
    /\ is_already_dog_named(fetched[idx].name)
    /\ fetched[idx].name # BatchLunch
    /\ decisions[idx] = "renamed"
    /\ acts[fetched[idx].id].name = BatchLunch

\* C24: the two naming functions return the same label for every start
\* timestamp, so a batch run classifies an outdoor Walk that carries the
\* event path's label as already named and sends no rename for it.
C24_EventNameKeptByBatch ==
    IsBatch =>
        \A j \in 1..Len(decisions) :
            LET a == fetched[j] IN
            (/\ a.type = "Walk" /\ ~a.trainer /\ a.start_date_local # <<>>
             /\ a.name = determine_activity_name(a.start_date_local))
                => decisions[j] = "already"

\* The two functions do choose the same time range for every timestamp: the
\* labels differ only after the words.
C24_SameRange ==
    fnOut # <<>> =>
        LET m == determine_activity_name(fnIn.text)
            b == bf_determine_activity_name(fnIn.text) IN
        /\ m = MainMorning <=> b = BatchMorning
        /\ m = MainLunch <=> b = BatchLunch
        /\ m = MainEvening <=> b = BatchEvening

\* C25: the counters start at zero; once the list is fetched total_fetched is
\* its length; over the items process_activities has reached, walks_found is
\* the number of Walks (indoor ones included) and already_named + to_rename
\* the number of outdoor Walks it named; a live run has renamed + errors <=
\* to_rename, with equality when processing has ended; a dry run leaves
\* renamed and errors at 0.
IsWalk(a) == a.type = "Walk"
IsOutdoorWalk(a) == a.type = "Walk" /\ ~a.trainer
Cnt(P(_), n) == Cardinality({j \in 1..n : P(fetched[j])})
Reached == IF idx > Len(fetched) THEN Len(fetched) ELSE idx
ProcessingEnded == pc = "done" /\ exitCode = 0 /\ idx = Len(fetched) + 1
NameRaised ==
    /\ pc = "done" /\ idx \in 1..Len(fetched) /\ Len(decisions) = idx - 1
    /\ bf_determine_activity_name(fetched[idx].start_date_local) = "ValueError"

C25_StatsConsistent ==
    IsBatch =>
        LET st == bf.stats IN
        /\ idx = 0 => st = ZeroStats
        /\ idx > 0 =>
              /\ st.total_fetched = Len(fetched)
              /\ st.walks_found = Cnt(IsWalk, Reached)
              /\ st.walks_found <= st.total_fetched
              /\ st.already_named + st.to_rename
                    = Cnt(IsOutdoorWalk, Reached) - (IF NameRaised THEN 1 ELSE 0)
              /\ st.renamed + st.errors <= st.to_rename
              /\ bf.dry_run => st.renamed = 0 /\ st.errors = 0
        /\ ProcessingEnded =>
              /\ st.walks_found = Cnt(IsWalk, Len(fetched))
              /\ st.already_named + st.to_rename = Cnt(IsOutdoorWalk, Len(fetched))
              /\ ~bf.dry_run => st.renamed + st.errors = st.to_rename

\* A live run over an indoor and an outdoor Walk has ended: both are counted
\* as found, one was to rename and its rename was sent.
C25_Witness ==
    /\ IsBatch /\ ~bf.dry_run /\ ProcessingEnded
    /\ bf.stats.total_fetched = 2 /\ bf.stats.walks_found = 2
    /\ \E j \in 1..2 : fetched[j].trainer
    /\ bf.stats.to_rename = 1 /\ bf.stats.renamed + bf.stats.errors = 1

\* C26: every batch run comes to its end (the summary, the return without
\* activities, or an error exit), the provider's listing being finite.
C26_BatchTerminates == (IsBatch /\ pc # "done") ~> (pc = "done")

\* A live run that was rate-limited, slept, listed two pages and a last empty
\* one, visited both activities and reached its summary.
C26_Witness ==
    /\ IsBatch /\ ~bf.dry_run /\ pc = "done" /\ exitCode = 0
    /\ n429 > 0 /\ page = 3
    /\ Len(fetched) = 2 /\ Len(decisions) = 2 /\ idx = 3

====
